---- MODULE Spec2Model ----
(***************************************************************************)
(* Model of expo_push_proxy.js, queued variant (source lines 121-276):     *)
(* the POST /push and GET /health handlers, enqueue, the processQueue      *)
(* drain loop and sendToExpo, on Node's single-threaded event loop.  Every *)
(* action is one uninterrupted run of JavaScript between two suspension    *)
(* points (await).  Time is the value Date.now() returns, in model         *)
(* milliseconds.                                                           *)
(*   Spec           the queued variant, parseBody's result an input        *)
(*   FairSpec       Spec with the event loop's fairness                    *)
(*   ParseSpec      the queued variant with parseBody's data and end       *)
(*                  events                                                 *)
(*   ImmediateSpec  the immediate-send variant (source lines 1-120)        *)
(***************************************************************************)
EXTENDS Integers, Sequences, FiniteSets, TLC

\* ---------------------------------------------------------------- bounds
\* Number of POST /push requests handled in a behaviour.
MaxRequests == 2
\* Longest `to` array in a request body.
MaxTokens == 2
\* Number of items pushed on the queue in a behaviour.
MaxItems == 3
\* Date.now() at process start; larger than every configured interval, as
\* the epoch clock is.
StartTime == 3
\* Milliseconds that may pass after StartTime while no timer is pending;
\* beyond them time passes only while a timer of the worker is pending.
MaxIdle == 1

MaxTime == StartTime + MaxIdle

\* The body limit of line 219 (1024 * 16), scaled.
BodyLimit == 2
\* Most characters in one chunk of a request body.
MaxChunk == 2

\* Configurations (MIN_INTERVAL_MS, STAGGER_MS) of lines 130-131, scaled.
ConfigValues ==
    { [min |-> 2, stagger |-> 1],
      [min |-> 0, stagger |-> 2],
      [min |-> 1, stagger |-> 0] }

\* ------------------------------------------------------ JSON body values
\* What JSON.parse can put in the `to` field, and `undefined` for a field
\* that is absent.
Undefined == [type |-> "undefined", v |-> "", elems |-> << >>]
Str(s) == [type |-> "string", v |-> s, elems |-> << >>]
Num(n) == [type |-> "number", v |-> n, elems |-> << >>]
Arr(es) == [type |-> "array", v |-> "", elems |-> es]

\* Scalars a `to` field or a `to` array element is drawn from: a token, the
\* empty string (falsy), and a number (a truthy value that is no string).
ScalarValues == { Str("A"), Str(""), Num("7") }

SeqsUpTo(S, n) == UNION { [1..k -> S] : k \in 0..n }

ToValues ==
    {Undefined} \cup ScalarValues \cup { Arr(es) : es \in SeqsUpTo(ScalarValues, MaxTokens) }

\* title and body fields: a text or absent/empty.
TextValues == { "t", "" }

\* Request bodies as parseBody resolves them.
Bodies == [to : ToValues, title : TextValues, body : TextValues]

\* Results of parseBody (lines 214-232): the parsed object, a JSON.parse
\* failure, or the 16 KiB limit.
ParseResults == { "ok", "badjson", "toolarge" }

\* Results of the outbound call (lines 149-160): fetch resolves with a
\* status and a readable body, fetch rejects, or res.text() rejects.
Outcomes == { "200", "400", "429", "500", "neterr", "unreadable" }

\* The results that are no delivery: a 4xx, 429 or 5xx status, a failed
\* fetch, an unreadable response.
FailureOutcomes == Outcomes \ { "200" }

\* JavaScript truthiness of a parsed JSON value (`!to`, filter(Boolean)).
Truthy(x) ==
    CASE x.type = "undefined" -> FALSE
      [] x.type = "null" -> FALSE
      [] x.type = "string" -> x.v # ""
      [] x.type = "number" -> x.v # "0"
      [] OTHER -> TRUE

TruthyText(s) == s # ""

Max(a, b) == IF a >= b THEN a ELSE b

\* ---------------------------------------------------------------- state
VARIABLES
    MIN_INTERVAL_MS,  \* line 130
    STAGGER_MS,       \* line 131
    queue,            \* line 134: sequence of queue items
    sending,          \* line 135
    lastSent,         \* line 136
    now,              \* Date.now()
    calls,            \* processQueue invocations, one per enqueue call
    handled,          \* number of POST /push requests answered
    response,         \* the HTTP response written by the step just taken, if any
    request,          \* what the request answered by the step just taken carried
    arrived,          \* ids of the items pushed on the queue, in push order
    attempts,         \* ids of the items whose outbound call was started, in start order
    lastAttempt,      \* the outbound call started last: times, result
    prevAttempt,      \* the outbound call started before lastAttempt (start time dropped)
    upload,           \* parseBody of the request whose body is being received
    inflight          \* immediate-send variant: the accepted requests and their sends

vars ==
    << MIN_INTERVAL_MS, STAGGER_MS, queue, sending, lastSent, now, calls,
       handled, response, request, arrived, attempts, lastAttempt, prevAttempt,
       upload, inflight >>

\* The body of a request whose body was never parsed.
NoBody == [to |-> Undefined, title |-> "", body |-> ""]

\* The recipient tokens a `to` field submits: its truthy elements when it
\* is an array, itself when it is a truthy scalar.
TokensSubmitted(to) ==
    IF to.type = "array"
    THEN Cardinality({ i \in DOMAIN to.elems : Truthy(to.elems[i]) })
    ELSE IF Truthy(to) THEN 1 ELSE 0

\* What is kept of a request: the result of parseBody, the number of
\* recipient tokens in its `to` field, its title and body fields.
Request(parse, b) ==
    [parse |-> parse, tokens |-> TokensSubmitted(b.to), title |-> b.title, body |-> b.body]

\* A GET /health request: it has no body to parse.
HealthRequest == [parse |-> "health", tokens |-> 0, title |-> "", body |-> ""]

\* No request answered by the step just taken.
NoRequest == [parse |-> "none", tokens |-> 0, title |-> "", body |-> ""]

\* No response written by the step just taken.
NoResponse == [status |-> 0, queued |-> 0, error |-> ""]

\* The payload object of lines 252-259; data, sound and channelId take
\* their defaults, the request bodies of the model do not carry them.
Payload(b) ==
    [title |-> b.title, body |-> b.body, data |-> "{}", sound |-> "default",
     channelId |-> "default", priority |-> "high"]

\* A queue item (line 200) {token, payload}; req and idx identify it: the
\* request that pushed it and its position in that request's token list.
NoItem == [token |-> Undefined, payload |-> Payload(NoBody), req |-> 0, idx |-> 0]

ItemId(it) == << it.req, it.idx >>

\* A processQueue invocation that is suspended at an await, or has ended.
\*   "minwait"  awaiting delay(waitMs), line 183
\*   "send"     awaiting sendToExpo, line 186
\*   "stagger"  awaiting delay(STAGGER_MS), line 191
\*   "gated"    returned at line 174
\*   "done"     returned after line 195
\*   "rejected" ended by the exception sendToExpo raised at line 186
\* The record kept of an outbound call: its item, the processQueue
\* invocation that made it, Date.now() at the fetch of line 149 and when
\* sendToExpo settled, whether the call failed (any result but a 2xx
\* response), whether the queue was non-empty when it settled, how the
\* promise settled.
NoAttempt ==
    [item |-> NoItem, call |-> 0, start |-> 0, end |-> 0, failed |-> FALSE,
     more |-> FALSE, settled |-> "none"]

\* parseBody (lines 214-232) of one request: the bytes received, the
\* length of `data`, whether JSON.parse was called on it, and where the
\* request stands:
\*   "none"       no request body is being received
\*   "receiving"  between the call of parseBody and its settling
\*   "ended"      the end event came (lines 224-230)
\*   "destroyed"  rejected for size and destroyed (lines 220-221)
NoUpload == [state |-> "none", bytes |-> 0, length |-> 0, parsed |-> FALSE]

\* Encoded widths, in bytes, of the characters of a body: ASCII, and a
\* character of three bytes in UTF-8 (one UTF-16 code unit).
CharWidths == { 1, 3 }

\* A chunk of a request body: its characters, each as its encoded width.
Chunks == UNION { [1..n -> CharWidths] : n \in 1..MaxChunk }

LivePcs == { "minwait", "send", "stagger" }

Live(c) == c.pc \in LivePcs

Init ==
    /\ \E cfg \in ConfigValues :
         /\ MIN_INTERVAL_MS = cfg.min
         /\ STAGGER_MS = cfg.stagger
    /\ queue = << >>
    /\ sending = FALSE
    /\ lastSent = 0
    /\ now = StartTime
    /\ calls = << >>
    /\ handled = 0
    /\ response = NoResponse
    /\ request = NoRequest
    /\ arrived = << >>
    /\ attempts = << >>
    /\ lastAttempt = NoAttempt
    /\ prevAttempt = NoAttempt
    /\ upload = NoUpload
    /\ inflight = << >>

\* ------------------------------------------------------- pure functions
normalizeTokensUnfiltered(to) ==
    IF ~Truthy(to) THEN << >>
    ELSE IF to.type = "array" THEN to.elems
    ELSE << to >>

\* normalizeTokens, lines 140-144.
normalizeTokens(to) ==
    IF ~Truthy(to) THEN << >>
    ELSE IF to.type = "array" THEN SelectSeq(to.elems, Truthy)
    ELSE << to >>

\* The items enqueue pushes for request r, lines 199-201, in token order.
Items(r, tokens, payload) ==
    [k \in 1..Len(tokens) |->
        [token |-> tokens[k], payload |-> payload, req |-> r, idx |-> k]]

PushFront(q, items) == items \o q

\* queue.push of line 200, for all tokens of one enqueue call.
Push(q, items) == q \o items

ShiftLast(q) == [item |-> q[Len(q)], rest |-> SubSeq(q, 1, Len(q) - 1)]

ShiftKeepsHead(q) == [item |-> Head(q), rest |-> q]

\* queue.shift() of line 178: the head, and the queue without it.
Shift(q) == [item |-> Head(q), rest |-> Tail(q)]

gateNeverClosed == FALSE

\* Line 174: `if (sending) return`.
gateClosed == sending

waitMsWithoutInterval(last, t) == Max(0, last - t)

\* Line 181: Math.max(0, lastSent + MIN_INTERVAL_MS - Date.now()).
waitMs(last, t) == Max(0, last + MIN_INTERVAL_MS - t)

staggerNever(q) == FALSE

staggerIgnoresQueue(q) == STAGGER_MS > 0

\* Line 190: `STAGGER_MS > 0 && queue.length > 0`.
staggerDue(q) == STAGGER_MS > 0 /\ Len(q) > 0

\* token.substring(0, 20) of lines 161 and 169: a TypeError unless the
\* token is a string (no other JSON value has a substring method).
substringThrows(token) == token.type # "string"

\* The try block of lines 148-167 throws when fetch rejects, when
\* res.text() rejects, or when the log line of 161 throws.
tryThrows(token, outcome) ==
    \/ outcome \in { "neterr", "unreadable" }
    \/ substringThrows(token)

\* The catch block of lines 168-170 evaluates token.substring again.
catchThrows(token) == substringThrows(token)

\* How the promise of sendToExpo settles, lines 146-171.
sendToExpoSettles(token, outcome) ==
    IF tryThrows(token, outcome) /\ catchThrows(token) THEN "rejected" ELSE "resolved"

fieldsMissingBoth(b) == ~TruthyText(b.title) /\ ~TruthyText(b.body)

\* Line 248: `!body.title || !body.body`.
fieldsMissing(b) == ~TruthyText(b.title) \/ ~TruthyText(b.body)

\* The responses sendJson writes, lines 246, 249, 262, 265.
Response(status, n, msg) == [status |-> status, queued |-> n, error |-> msg]

AcceptResponseDeferred(tokens) == NoResponse

\* Line 262: the answer to an accepted request, written in the same run as
\* enqueue.
AcceptResponse(tokens) == Response(202, Len(tokens), "")

HealthResponseOffByOne(q) == Response(200, Len(q) - 1, "")

HealthResponseNoDepth(q) == Response(200, 0, "")

\* Line 238: the answer to GET /health, {status: "ok", queued: queue.length}.
HealthResponse(q) == Response(200, Len(q), "")

\* err.message of line 265 for the two ways parseBody rejects.
ParseError(parse) ==
    IF parse = "toolarge" THEN "Payload too large" ELSE "Unexpected token in JSON"

\* The record of an outbound call that has just been started (fetch, line 149).
NewAttempt(w, it) ==
    [item |-> it, call |-> w, start |-> now, end |-> 0, failed |-> FALSE,
     more |-> FALSE, settled |-> "pending"]

\* A call record.
Call(pc, it, wake) == [pc |-> pc, item |-> it, wake |-> wake]

\* --------------------------------------------------------------- actions
\* No outbound call is started in this run; la is lastAttempt as this run
\* has changed it so far.
NoSend(la) ==
    /\ attempts' = attempts
    /\ lastAttempt' = la
    /\ prevAttempt' = prevAttempt

\* sendToExpo up to its first await (lines 147-149) for invocation w: the
\* outbound call is started. cs and la are calls and lastAttempt as this
\* run has changed them so far.
StartSend(w, it, cs, la) ==
    /\ calls' = [cs EXCEPT ![w] = Call("send", it, 0)]
    /\ attempts' = Append(attempts, ItemId(it))
    /\ lastAttempt' = NewAttempt(w, it)
    /\ prevAttempt' = [la EXCEPT !.start = 0]

\* processQueue from the loop test of line 177 to its next await or to its
\* return, for invocation w; q and last are queue and lastSent as this run
\* has changed them so far.
LoopFrom(w, q, last, cs, la) ==
    IF Len(q) > 0
    THEN LET s == Shift(q)
             wms == waitMs(last, now)
         IN  /\ queue' = s.rest
             /\ sending' = TRUE
             /\ IF wms > 0
                THEN /\ calls' = [cs EXCEPT ![w] = Call("minwait", s.item, now + wms)]
                     /\ NoSend(la)
                ELSE StartSend(w, s.item, cs, la)
    ELSE /\ queue' = q
         /\ sending' = FALSE
         /\ calls' = [cs EXCEPT ![w] = Call("done", NoItem, 0)]
         /\ NoSend(la)

\* processQueue from its entry, lines 173-176, called by enqueue at line 202
\* as invocation w.
processQueue(w, q, cs) ==
    IF gateClosed
    THEN /\ queue' = q
         /\ sending' = sending
         /\ calls' = [cs EXCEPT ![w] = Call("gated", NoItem, 0)]
         /\ NoSend(lastAttempt)
    ELSE LoopFrom(w, q, lastSent, cs, lastAttempt)

\* enqueue, lines 198-203, for request r.
enqueue(r, tokens, payload) ==
    LET items == Items(r, tokens, payload)
        w == Len(calls) + 1
    IN  /\ arrived' = arrived \o [k \in 1..Len(items) |-> ItemId(items[k])]
        /\ processQueue(w, Push(queue, items), Append(calls, Call("entry", NoItem, 0)))

\* The POST /push handler, lines 241-267, from the resolution of parseBody
\* to the response: one run, it has no await after line 243.
Handle(parse, b) ==
    /\ handled < MaxRequests
    /\ parse # "ok" => b = NoBody
    /\ handled' = handled + 1
    /\ request' = Request(parse, b)
    /\ LET r == handled + 1
           tokens == normalizeTokens(b.to)
       IN  IF parse # "ok"
           THEN /\ response' = Response(400, 0, ParseError(parse))
                /\ UNCHANGED << queue, sending, calls, arrived, attempts, lastAttempt, prevAttempt >>
           ELSE IF Len(tokens) = 0
           THEN /\ response' = Response(400, 0, "Missing 'to' token(s)")
                /\ UNCHANGED << queue, sending, calls, arrived, attempts, lastAttempt, prevAttempt >>
           ELSE IF fieldsMissing(b)
           THEN /\ response' = Response(400, 0, "Missing 'title' or 'body'")
                /\ UNCHANGED << queue, sending, calls, arrived, attempts, lastAttempt, prevAttempt >>
           ELSE /\ Len(arrived) + Len(tokens) <= MaxItems
                /\ enqueue(r, tokens, Payload(b))
                /\ response' = AcceptResponse(tokens)
    /\ UNCHANGED << MIN_INTERVAL_MS, STAGGER_MS, lastSent, now, inflight >>

\* POST /push with the result of parseBody given.
PostPush(parse, b) ==
    /\ Handle(parse, b)
    /\ UNCHANGED upload

\* The GET /health handler, lines 237-239: one run, no await.
GetHealth ==
    /\ request' = HealthRequest
    /\ response' = HealthResponse(queue)
    /\ UNCHANGED << MIN_INTERVAL_MS, STAGGER_MS, queue, sending, lastSent, now, calls,
                    handled, arrived, attempts, lastAttempt, prevAttempt, upload, inflight >>

\* The timer of line 183 fires for invocation w: line 186 calls sendToExpo.
MinWaitFire(w) ==
    /\ calls[w].pc = "minwait"
    /\ now >= calls[w].wake
    /\ StartSend(w, calls[w].item, calls, lastAttempt)
    /\ request' = NoRequest
    /\ response' = NoResponse
    /\ UNCHANGED << MIN_INTERVAL_MS, STAGGER_MS, queue, sending, lastSent, now,
                    handled, arrived, upload, inflight >>

\* The outbound call of invocation w ends with `outcome` and sendToExpo
\* settles (lines 149-170); processQueue goes on from line 186 to its next
\* await, its return, or ends with the exception of a rejected sendToExpo.
SendComplete(w, outcome) ==
    /\ calls[w].pc = "send"
    /\ request' = NoRequest
    /\ response' = NoResponse
    /\ LET settled == sendToExpoSettles(calls[w].item.token, outcome)
           la == [lastAttempt EXCEPT !.end = now, !.failed = outcome \in FailureOutcomes,
                                     !.more = Len(queue) > 0, !.settled = settled]
       IN  IF settled = "rejected"
           THEN /\ calls' = [calls EXCEPT ![w] = Call("rejected", NoItem, 0)]
                /\ NoSend(la)
                /\ UNCHANGED << queue, sending, lastSent >>
           ELSE /\ lastSent' = now
                /\ IF staggerDue(queue)
                   THEN /\ calls' = [calls EXCEPT ![w] = Call("stagger", NoItem, now + STAGGER_MS)]
                        /\ NoSend(la)
                        /\ UNCHANGED << queue, sending >>
                   ELSE LoopFrom(w, queue, now, calls, la)
    /\ UNCHANGED << MIN_INTERVAL_MS, STAGGER_MS, now, handled, arrived, upload, inflight >>

\* The timer of line 191 fires for invocation w: back to the loop test.
StaggerFire(w) ==
    /\ calls[w].pc = "stagger"
    /\ now >= calls[w].wake
    /\ LoopFrom(w, queue, lastSent, calls, lastAttempt)
    /\ request' = NoRequest
    /\ response' = NoResponse
    /\ UNCHANGED << MIN_INTERVAL_MS, STAGGER_MS, lastSent, now, handled, arrived, upload, inflight >>

\* A timer of the worker that has not reached its time yet.
TimerPending ==
    \E w \in DOMAIN calls : calls[w].pc \in { "minwait", "stagger" } /\ calls[w].wake > now

\* A millisecond passes.
Tick ==
    /\ now < MaxTime \/ TimerPending
    /\ now' = now + 1
    /\ request' = NoRequest
    /\ response' = NoResponse
    /\ UNCHANGED << MIN_INTERVAL_MS, STAGGER_MS, queue, sending, lastSent, calls,
                    handled, arrived, attempts, lastAttempt, prevAttempt, upload, inflight >>

Next ==
    \/ \E parse \in ParseResults, b \in Bodies : PostPush(parse, b)
    \/ GetHealth
    \/ \E w \in DOMAIN calls : MinWaitFire(w)
    \/ \E w \in DOMAIN calls, outcome \in Outcomes : SendComplete(w, outcome)
    \/ \E w \in DOMAIN calls : StaggerFire(w)
    \/ Tick

Spec == Init /\ [][Next]_vars

\* The event loop runs every timer that is due and every completed outbound
\* call's continuation, and the clock advances.
FairSpec ==
    /\ Spec
    /\ WF_vars(Tick)
    /\ WF_vars(\E w \in DOMAIN calls : MinWaitFire(w))
    /\ WF_vars(\E w \in DOMAIN calls, outcome \in Outcomes : SendComplete(w, outcome))
    /\ WF_vars(\E w \in DOMAIN calls : StaggerFire(w))

\* ------------------------------------------------------------- parseBody
RECURSIVE Sum(_)
Sum(f) == IF f = << >> THEN 0 ELSE Head(f) + Sum(Tail(f))

\* The bytes of a chunk as the socket delivers it.
ByteLength(chunk) == Sum(chunk)

\* `data += chunk` of line 218: the chunk, a Buffer, is decoded to a string
\* and appended; the length of a string is its number of UTF-16 code
\* units, one for each of the characters of CharWidths.
DecodedLength(chunk) == Len(chunk)

\* Line 219: `data.length > 1024 * 16`.
overLimit(length) == length > BodyLimit

\* The worker state and the ghosts of the handler, which a step of
\* parseBody that does not settle it leaves alone.
handlerVars ==
    << MIN_INTERVAL_MS, STAGGER_MS, queue, sending, lastSent, now, calls,
       handled, arrived, attempts, lastAttempt, prevAttempt, inflight >>

\* The handler calls parseBody for a POST /push (line 243): `data` is empty
\* and the listeners are attached (lines 216-224).
BodyBegin ==
    /\ upload.state # "receiving"
    /\ handled < MaxRequests
    /\ upload' = [NoUpload EXCEPT !.state = "receiving"]
    /\ request' = NoRequest
    /\ response' = NoResponse
    /\ UNCHANGED handlerVars

\* A data event, lines 217-223: the chunk is appended; past the limit the
\* promise is rejected and the request destroyed, and the handler goes on
\* in its catch block (lines 263-266) before any other event is handled.
BodyData(chunk) ==
    /\ upload.state = "receiving"
    /\ LET length == upload.length + DecodedLength(chunk)
           up == [upload EXCEPT !.bytes = @ + ByteLength(chunk), !.length = length]
       IN  IF overLimit(length)
           THEN /\ upload' = [up EXCEPT !.state = "destroyed"]
                /\ Handle("toolarge", NoBody)
           ELSE /\ upload' = up
                /\ request' = NoRequest
                /\ response' = NoResponse
                /\ UNCHANGED handlerVars

\* The end event, lines 224-230: JSON.parse is called on `data` unless it
\* is empty, the promise settles, and the handler goes on from line 243
\* before any other event is handled.
BodyEnd(parse, b) ==
    /\ upload.state = "receiving"
    /\ parse \in { "ok", "badjson" }
    /\ upload.length = 0 => (parse = "ok" /\ b = NoBody)
    /\ upload' = [upload EXCEPT !.state = "ended", !.parsed = upload.length > 0]
    /\ Handle(parse, b)

\* The program with the body of each POST /push received chunk by chunk.
ParseNext ==
    \/ BodyBegin
    \/ \E chunk \in Chunks : BodyData(chunk)
    \/ \E parse \in ParseResults, b \in Bodies : BodyEnd(parse, b)
    \/ \E w \in DOMAIN calls : MinWaitFire(w)
    \/ \E w \in DOMAIN calls, outcome \in Outcomes : SendComplete(w, outcome)
    \/ \E w \in DOMAIN calls : StaggerFire(w)
    \/ Tick

ParseSpec == Init /\ [][ParseNext]_vars

\* ------------------------------------------- immediate-send variant
\* The variant of source lines 1-120: no queue, no worker. An accepted
\* request is kept with its tokens, the state of the sendToExpo promise of
\* each ("pending", "resolved", "rejected"), and the answer written for it
\* (status 0: none yet).
Accepted(tokens) ==
    [tokens |-> tokens, sends |-> [k \in 1..Len(tokens) |-> "pending"],
     status |-> 0, sent |-> 0]

\* sendToExpo of lines 21-46, the same text as lines 146-171.
immediateSendSettles(token, outcome) == sendToExpoSettles(token, outcome)

\* Line 106: sendJson(res, 200, {sent: tokens.length}); the count is kept
\* in the field `queued` of the response record.
SentResponse(n) == Response(200, n, "")

\* err.message of line 109 when Promise.all rejected: the TypeError of
\* token.substring.
SendError == "token.substring is not a function"

immediateVars == << queue, sending, lastSent, calls, arrived, lastAttempt, prevAttempt, upload >>

\* The POST /push handler of lines 84-105, from the resolution of parseBody
\* to its await of Promise.all: it answers 400 (lines 89, 92, 109) or
\* starts the outbound call of every token, each sendToExpo running to its
\* fetch (lines 22-24), in this one run.
ImmediatePush(parse, b) ==
    /\ handled < MaxRequests
    /\ parse # "ok" => b = NoBody
    /\ handled' = handled + 1
    /\ request' = Request(parse, b)
    /\ LET r == handled + 1
           tokens == normalizeTokens(b.to)
       IN  IF parse # "ok"
           THEN /\ response' = Response(400, 0, ParseError(parse))
                /\ UNCHANGED << inflight, attempts >>
           ELSE IF Len(tokens) = 0
           THEN /\ response' = Response(400, 0, "Missing 'to' token(s)")
                /\ UNCHANGED << inflight, attempts >>
           ELSE IF fieldsMissing(b)
           THEN /\ response' = Response(400, 0, "Missing 'title' or 'body'")
                /\ UNCHANGED << inflight, attempts >>
           ELSE /\ inflight' = Append(inflight, Accepted(tokens))
                /\ attempts' = attempts \o [k \in 1..Len(tokens) |-> << Len(inflight) + 1, k >>]
                /\ response' = NoResponse
    /\ UNCHANGED << MIN_INTERVAL_MS, STAGGER_MS, now >>
    /\ UNCHANGED immediateVars

\* The outbound call for token k of accepted request i ends with `outcome`
\* and its sendToExpo settles. Promise.all (line 105) rejects with the
\* first rejection and resolves when every promise has resolved; the
\* handler then goes on to line 106 or to its catch block (lines 107-110).
ImmediateSendComplete(i, k, outcome) ==
    /\ inflight[i].sends[k] = "pending"
    /\ LET settled == immediateSendSettles(inflight[i].tokens[k], outcome)
           sends == [inflight[i].sends EXCEPT ![k] = settled]
           req == [inflight[i] EXCEPT !.sends = sends]
           answer == SentResponse(Len(req.tokens))
       IN  IF req.status # 0
           THEN /\ inflight' = [inflight EXCEPT ![i] = req]
                /\ response' = NoResponse
           ELSE IF settled = "rejected"
           THEN /\ inflight' = [inflight EXCEPT ![i] = [req EXCEPT !.status = 400]]
                /\ response' = Response(400, 0, SendError)
           ELSE IF \A j \in DOMAIN sends : sends[j] = "resolved"
           THEN /\ response' = answer
                /\ inflight' = [inflight EXCEPT ![i] =
                                    [req EXCEPT !.status = answer.status,
                                                !.sent = answer.queued]]
           ELSE /\ inflight' = [inflight EXCEPT ![i] = req]
                /\ response' = NoResponse
    /\ request' = NoRequest
    /\ UNCHANGED << MIN_INTERVAL_MS, STAGGER_MS, now, handled, attempts >>
    /\ UNCHANGED immediateVars

\* A millisecond passes; the variant sets no timer.
ImmediateTick ==
    /\ now < MaxTime
    /\ now' = now + 1
    /\ request' = NoRequest
    /\ response' = NoResponse
    /\ UNCHANGED << MIN_INTERVAL_MS, STAGGER_MS, handled, attempts, inflight >>
    /\ UNCHANGED immediateVars

ImmediateNext ==
    \/ \E parse \in ParseResults, b \in Bodies : ImmediatePush(parse, b)
    \/ \E i \in DOMAIN inflight :
          \E k \in DOMAIN inflight[i].sends, outcome \in Outcomes :
             ImmediateSendComplete(i, k, outcome)
    \/ ImmediateTick

ImmediateSpec == Init /\ [][ImmediateNext]_vars

\* ---------------------------------------------------------------- claims
Range(f) == { f[i] : i \in DOMAIN f }

NoDuplicates(f) == \A i, j \in DOMAIN f : f[i] = f[j] => i = j

LiveCalls == { w \in DOMAIN calls : Live(calls[w]) }

\* Ids an item can have within the bounds.
ItemIds == (1..MaxRequests) \X (1..MaxItems)

\* Time from the settling of the attempt before the last one to the start
\* of the last one.
Gap == lastAttempt.start - prevAttempt.end

\* C1: the delivery attempts started so far are, in order, a prefix of the
\* items in the order they were pushed on the queue.
C1_FifoPrefix ==
    /\ Len(attempts) <= Len(arrived)
    /\ \A i \in 1..Len(attempts) : attempts[i] = arrived[i]

C1_Witness ==
    /\ Len(attempts) >= 3
    /\ attempts[1][1] # attempts[3][1]

\* C2: an attempt that follows another one starts after the earlier one has
\* settled, and at least MIN_INTERVAL_MS after it settled, whichever
\* invocations of processQueue and whichever requests the two belong to.
C2_MinInterval ==
    Len(attempts) >= 2 =>
        /\ prevAttempt.end > 0
        /\ Gap >= MIN_INTERVAL_MS

C2_Witness ==
    /\ Len(attempts) >= 2
    /\ prevAttempt.failed
    /\ MIN_INTERVAL_MS > 0
    /\ lastAttempt.item.req # prevAttempt.item.req
    /\ lastAttempt.call # prevAttempt.call

\* C3: every item pushed on the queue is eventually attempted.
C3_EventuallyAttempted ==
    \A id \in ItemIds : (id \in Range(arrived)) ~> (id \in Range(attempts))

\* C4: at most one invocation of processQueue is past the gate and not yet
\* ended; an invocation made while one is live returns at the gate: it
\* pops nothing and starts no attempt.
C4_SingleDrainLoop ==
    /\ [](Cardinality(LiveCalls) <= 1)
    /\ [][(LiveCalls # {} /\ Len(calls') > Len(calls)) =>
            /\ calls'[Len(calls')].pc = "gated"
            /\ \A w \in DOMAIN calls : calls'[w] = calls[w]
            /\ Len(queue') > Len(queue)
            /\ SubSeq(queue', 1, Len(queue)) = queue
            /\ attempts' = attempts]_vars

C4_Witness ==
    \E w1, w2 \in DOMAIN calls :
        /\ calls[w1].pc = "minwait"
        /\ calls[w2].pc = "gated"

\* C5: no item is attempted twice, an item that was attempted (or is held
\* by the worker) is not in the queue, and there are never more attempts
\* than items accepted; whatever the result of the attempt.
C5_AtMostOneAttempt ==
    /\ NoDuplicates(attempts)
    /\ Len(attempts) <= Len(arrived)
    /\ \A i \in 1..Len(queue) : ItemId(queue[i]) \notin Range(attempts)
    /\ \A w \in DOMAIN calls :
          calls[w].pc = "minwait" =>
              /\ ItemId(calls[w].item) \notin Range(attempts)
              /\ \A i \in 1..Len(queue) : queue[i] # calls[w].item

C5_Witness ==
    /\ prevAttempt.failed
    /\ prevAttempt.settled = "resolved"
    /\ lastAttempt.failed
    /\ lastAttempt.settled = "resolved"
    /\ Len(queue) > 0

\* C6: the step that pushes a request's items on the queue is the step that
\* answers it with 202: no time passes in it, and none of its items has a
\* settled attempt when the answer is written.
C6_AcceptsWithoutWaiting ==
    [][Len(arrived') > Len(arrived) =>
          /\ handled' = handled + 1
          /\ response'.status = 202
          /\ now' = now
          /\ lastSent' = lastSent
          /\ \/ lastAttempt' = lastAttempt
             \/ lastAttempt'.settled = "pending"]_vars

C6_Witness ==
    /\ response.status = 202
    /\ handled = 2
    /\ Len(queue) > 0
    /\ \E w \in DOMAIN calls : calls[w].pc = "minwait" /\ calls[w].item.req = 1

\* C7: an accepted request is answered with the number of recipient tokens
\* its `to` field submits, and that many items are pushed on the queue.
C7_QueuedCount ==
    (request.parse = "ok" /\ response.status = 202) =>
        /\ response.queued = request.tokens
        /\ Cardinality({ i \in DOMAIN arrived : arrived[i][1] = handled }) = request.tokens
        /\ \A k \in 1..request.tokens : << handled, k >> \in Range(arrived)

C7_Witness ==
    /\ request.parse = "ok"
    /\ request.tokens = 2
    /\ response.status = 202
    /\ response.queued = 2
    /\ Len(arrived) = 3

C9_StaggerBetweenItems ==
    /\ (Len(attempts) >= 2 /\ prevAttempt.more /\ STAGGER_MS > 0) => Gap >= STAGGER_MS
    /\ (Len(attempts) >= 2 /\ prevAttempt.item.req = lastAttempt.item.req) =>
          lastAttempt.item.idx = prevAttempt.item.idx + 1
    /\ \A w \in DOMAIN calls :
          calls[w].pc = "stagger" =>
              /\ STAGGER_MS > 0
              /\ lastAttempt.call = w
              /\ lastAttempt.settled = "resolved"
              /\ lastAttempt.more
              /\ calls[w].wake = lastAttempt.end + STAGGER_MS
    /\ (lastAttempt.settled = "resolved" /\ lastAttempt.more /\ STAGGER_MS > 0) =>
          \/ calls[lastAttempt.call].pc = "stagger"
          \/ /\ calls[lastAttempt.call].pc = "minwait"
             /\ now >= lastAttempt.end + STAGGER_MS
    /\ (lastAttempt.settled = "resolved" /\ ~lastAttempt.more) =>
          calls[lastAttempt.call].pc = "done"

C9_Witness ==
    /\ Len(attempts) >= 2
    /\ STAGGER_MS > 0
    /\ prevAttempt.more
    /\ prevAttempt.item.req = lastAttempt.item.req
    /\ Gap = STAGGER_MS

\* C10: the promise of sendToExpo never rejects, whatever the token and the
\* result of the outbound call.
C10_SendNeverRejects ==
    /\ lastAttempt.settled # "rejected"
    /\ \A w \in DOMAIN calls : calls[w].pc # "rejected"

\* C11: an attempt that has settled, in whatever way, with items still in
\* the queue leaves its processQueue invocation live: the worker goes on to
\* the next queued item.
C11_DrainGoesOn ==
    (lastAttempt.settled \in { "resolved", "rejected" } /\ lastAttempt.more) =>
        Live(calls[lastAttempt.call])

\* C18: whenever control is back at the event loop with the queue non-empty,
\* a processQueue invocation is live (it holds a popped item or waits
\* before the next pop), so the head of the queue will be popped.
C18_NoLostWakeup ==
    Len(queue) > 0 => LiveCalls # {}

\* C19: `sending` is true exactly while a processQueue invocation is past
\* the gate and has not ended.
C19_SendingIffLive ==
    sending <=> LiveCalls # {}

\* C12: a request whose body is no valid JSON, or that lacks `to` (absent,
\* empty, or an array with no truthy element), or lacks title or body, is
\* answered with 400 and an error message; a missing `to` is reported as
\* such, also when title and body are missing too; and the step that
\* answers 400 changes neither the queue, the worker flag, lastSent nor any
\* invocation, and starts no attempt.
C12_RejectsInvalid ==
    /\ []((\/ request.parse = "badjson"
           \/ /\ request.parse = "ok"
              /\ (request.tokens = 0 \/ request.title = "" \/ request.body = ""))
          => /\ response.status = 400
             /\ response.error # "")
    /\ []((request.parse = "ok" /\ request.tokens = 0) =>
             response.error = "Missing 'to' token(s)")
    /\ [][response'.status = 400 =>
            /\ queue' = queue
            /\ sending' = sending
            /\ lastSent' = lastSent
            /\ calls' = calls
            /\ arrived' = arrived
            /\ attempts' = attempts
            /\ lastAttempt' = lastAttempt]_vars

C12_Witness ==
    /\ request.parse = "ok"
    /\ request.tokens = 0
    /\ request.title = ""
    /\ request.body = ""
    /\ response.status = 400
    /\ response.error = "Missing 'to' token(s)"
    /\ Len(queue) > 0
    /\ sending

\* C14: a request that parseBody rejected for its size is answered with
\* status 413, not with the 400 of a missing field or malformed JSON.
C14_TooLargeIs413 ==
    request.parse = "toolarge" => response.status = 413

\* Invocations suspended in the minimum-interval wait: each holds an item
\* it has popped and not yet sent.
HeldCalls == { w \in DOMAIN calls : calls[w].pc = "minwait" }

\* C15: GET /health can be handled in every state, is answered 200 with a
\* queue depth that is a natural number, and the step that answers it
\* changes nothing of the queue, the worker flag, lastSent, the invocations
\* and the attempts.
C15_HealthAlwaysOk ==
    /\ [](ENABLED GetHealth)
    /\ [](request.parse = "health" =>
             /\ response.status = 200
             /\ response.queued \in Nat)
    /\ [][request'.parse = "health" =>
            /\ queue' = queue
            /\ sending' = sending
            /\ lastSent' = lastSent
            /\ calls' = calls
            /\ attempts' = attempts
            /\ lastAttempt' = lastAttempt]_vars

C15_Witness ==
    /\ request.parse = "health"
    /\ response.status = 200
    /\ response.queued > 0
    /\ \E w \in DOMAIN calls : calls[w].pc = "send"

\* C16, as claimed: the depth GET /health reports is the number of accepted
\* items whose attempt has not started.
C16_DepthIsNotStarted ==
    request.parse = "health" =>
        response.queued = Len(arrived) - Len(attempts)

\* C16, amended: the depth is the number of items in the queue: the
\* accepted items whose attempt has not started, less the item a worker
\* has popped and holds during its minimum-interval wait.
C16_DepthIsNotPopped ==
    request.parse = "health" =>
        /\ response.queued = Len(arrived) - Len(attempts) - Cardinality(HeldCalls)
        /\ Cardinality(HeldCalls) <= 1

C16_Witness ==
    /\ request.parse = "health"
    /\ HeldCalls # {}
    /\ response.queued = 1
    /\ Len(arrived) - Len(attempts) = 2

\* The ids of the items of a sequence of queue items.
Ids(q) == [i \in 1..Len(q) |-> ItemId(q[i])]

\* The items of each request stand next to one another in f, in the order
\* of the request's token list.
Consecutive(f) ==
    \A i \in DOMAIN f :
        IF f[i][2] = 1
        THEN \A j \in 1..(i - 1) : f[j][1] # f[i][1]
        ELSE i > 1 /\ f[i - 1] = << f[i][1], f[i][2] - 1 >>

\* C17: the items of one enqueue call are pushed next to one another in
\* token order, stand so in the queue and are attempted so, with no item
\* of another request between them; the step that pushes them leaves the
\* items already queued in their places and lastSent as it was.
C17_AtomicAppend ==
    /\ [](/\ Consecutive(arrived)
          /\ Consecutive(attempts)
          /\ Len(queue) <= Len(arrived)
          /\ Ids(queue) = SubSeq(arrived, Len(arrived) - Len(queue) + 1, Len(arrived)))
    /\ [][Len(arrived') > Len(arrived) =>
            /\ lastSent' = lastSent
            /\ SubSeq(arrived', 1, Len(arrived)) = arrived
            /\ queue # << >> =>
                  /\ Len(queue') = Len(queue) + Len(arrived') - Len(arrived)
                  /\ SubSeq(queue', 1, Len(queue)) = queue]_vars

C17_Witness ==
    /\ response.status = 202
    /\ handled = 2
    /\ Len(queue) = 2
    /\ ItemId(queue[1]) = << 1, 2 >>
    /\ ItemId(queue[2]) = << 2, 1 >>
    /\ \E w \in DOMAIN calls : calls[w].pc = "send" /\ ItemId(calls[w].item) = << 1, 1 >>

\* C13: a body of more than BodyLimit bytes is rejected in the data event
\* in which it passes the limit and JSON.parse is never called on it; the
\* step that rejects it answers with the size error, pushes nothing,
\* changes no invocation and starts no attempt; a body of no more than
\* BodyLimit bytes is not rejected for size.
C13_OversizedRejected ==
    /\ [](upload.bytes > BodyLimit =>
             /\ upload.state = "destroyed"
             /\ ~upload.parsed)
    /\ [](upload.state = "destroyed" => upload.bytes > BodyLimit)
    /\ [][(upload'.state = "destroyed" /\ upload.state # "destroyed") =>
            /\ response'.error = "Payload too large"
            /\ queue' = queue
            /\ sending' = sending
            /\ calls' = calls
            /\ arrived' = arrived
            /\ attempts' = attempts]_vars

\* C20: in the immediate-send variant every token of an accepted request
\* has exactly one attempt, started in the step that accepted the request,
\* with no time passing; the request is answered when every one of its
\* sends has settled and not before, and the answer is 200 with the
\* number of its tokens, whatever the results of the sends.
C20_ImmediateSendsAll ==
    /\ [](\A i \in DOMAIN inflight :
            /\ Len(inflight[i].sends) = Len(inflight[i].tokens)
            /\ \A k \in DOMAIN inflight[i].tokens :
                  Cardinality({ j \in DOMAIN attempts : attempts[j] = << i, k >> }) = 1
            /\ inflight[i].status # 0 <=>
                  \A k \in DOMAIN inflight[i].sends : inflight[i].sends[k] # "pending"
            /\ inflight[i].status # 0 =>
                  /\ inflight[i].status = 200
                  /\ inflight[i].sent = Len(inflight[i].tokens))
    /\ [][Len(inflight') > Len(inflight) =>
            /\ now' = now
            /\ Len(attempts') = Len(attempts) + request'.tokens
            /\ Len(inflight'[Len(inflight')].tokens) = request'.tokens]_vars

====
